---- MODULE Spec2Model ----
(***************************************************************************)
(* Model of the delayed, retryable task queue of taskqueue/task_queue.go.  *)
(*                                                                         *)
(* The shared store holds one sorted set (the schedule) and one            *)
(* in-progress key per worker.  Every worker runs the Consume loop; one    *)
(* tick of the loop is a sequence of store round trips (the claim script,  *)
(* the ZADD of a retry, the DEL of the in-progress key) around the         *)
(* handler, and the workers interleave between those round trips.          *)
(*                                                                         *)
(* Time is a clock counted in ticks, TicksPerSecond of them to the second, *)
(* so that the whole-second truncation of time.Time.Unix() is visible.     *)
(***************************************************************************)
EXTENDS Integers, Sequences, FiniteSets, TLC

\* ---------------------------------------------------------------- bounds

\* Clock resolution of the model: ticks per Unix second.
TicksPerSecond == 2

\* The clock runs from 0 to MaxNow ticks.
MaxNow == 4

\* ProduceAt's executeAt lies at most MaxDelay ticks after the clock.
MaxDelay == 1

\* At most MaxCrashes worker crashes in a behaviour.
MaxCrashes == 1

\* In the specification of progress a handler fails a task at most
\* MaxFails times.
MaxFails == 2

\* At most MaxFaults store calls fail in a behaviour.
MaxFaults == 1

\* At most MaxForeign entries written to the schedule by other programs.
MaxForeign == 1

\* A task fails at most MaxChain times in a row in the backoff specification.
MaxChain == 70

\* ------------------------------------------------------- configuration

Workers == {"w1", "w2"}

\* The payload of the producer's n-th task (runProducer numbers them).
PayloadOf(n) == <<"Body", n>>

\* Options.MaxRetries as NewTaskQueue stores it; negative means unlimited.
MaxRetriesChoices == {-1, 0, 1}

\* time.Second, as a Duration counted in ticks.
Second == TicksPerSecond

\* time.Time.Unix(): whole seconds, the fraction dropped.
Unix(t) == t \div TicksPerSecond

\* ---------------------------------------------------------------- state

VARIABLES
    now,          \* the wall clock, in ticks
    schedule,     \* the sorted set at taskQueueKey: entries [member, score, at]
    inProgress,   \* the value at each worker's inProgressTaskKey ({} when absent)
    maxRetries,   \* TaskQueue.maxRetries
    pc,           \* each worker's position in Consume / consume
    task,         \* consume's local task
    result,       \* consume's return value
    tickPending,  \* ticker.C holds a tick
    cancelled,    \* ctx.Done() is closed
    nextID,       \* ids handed out by uuid.New so far, plus one
    crashes,      \* worker crashes so far
    foreign,      \* foreign schedule entries so far
    faults,       \* failed store calls so far
    claim,        \* history of the tick: what the claim script returned, and when
    retry,        \* history of the tick: what produceRetry did
    calls,        \* history of the tick: the calls made, in order
    runs,         \* history: handler invocations per task id
    chain,        \* a task failing again and again, its Wait in int64 nanoseconds
    produced,     \* what the last ProduceAt returned
    outcome       \* history: how each task id ended, if it has

\* the shared store
store == <<schedule, inProgress>>

\* the Consume loops
loop == <<pc, task, result, tickPending, cancelled>>

\* clock, configuration and counters
env == <<now, maxRetries, nextID, crashes, foreign, chain, produced>>

\* history variables
hist == <<claim, retry, calls, runs, outcome>>

vars == <<store, loop, env, faults, hist>>

\* The ids uuid.New gives: ProduceAt is called at most twice.
TaskIDs == {1, 2}

\* uuid.Nil
NilID == 0

\* The zero Task; consume holds it while it holds no task.
NoTask == [ID |-> NilID, Payload |-> <<>>, RetryCount |-> 0, Wait |-> 0]

\* Task.MarshalBinary: the JSON text of the four fields, as stored in the
\* sorted set.  json says whether the text is JSON of a Task at all.
MarshalBinary(t) == [json |-> TRUE, body |-> t]

\* A schedule member no Task can be unmarshalled from.
Garbage(n) == [json |-> FALSE, body |-> [NoTask EXCEPT !.ID = -n]]

\* json.Unmarshal in getTask: whether it succeeds, and the Task it fills.
\* A getTask that takes every member for a Task.
UnmarshalAnything(member) == TRUE

UnmarshalOK(member) == member.json

\* What stands for the id of the n-th member that is no Task.
ForeignIDs == {-n : n \in 1..MaxForeign}

Unmarshal(member) == member.body

NoEntry == [member |-> [json |-> FALSE, body |-> NoTask], score |-> -1, at |-> -1]

NoClaim == [entry |-> NoEntry, now |-> -1]

NoRetry == [old |-> NoTask, new |-> NoTask, now |-> -1, wait |-> 0, at |-> -1,
            err |-> "none"]

\* No ProduceAt has returned.
NoReturn == [id |-> NilID, err |-> "none"]

\* consume's return values: the error and the error it wraps
NoResult == [err |-> "none", cause |-> "none"]

ResultNil == [err |-> "nil", cause |-> "none"]

ErrGetTask(cause) == [err |-> "failed to get task", cause |-> cause]

\* consume handing ErrNoTaskToConsume on like any other getTask error.
consumeNoTaskAsError == ErrGetTask("ErrNoTaskToConsume")

\* consume's return value when getTask returns ErrNoTaskToConsume.
consumeNoTask == ResultNil

ErrConsumeFunc == [err |-> "failed to run consume func", cause |-> "handler"]

ErrTaskLost(cause) == [err |-> "ErrTaskLost", cause |-> cause]

\* A consume that removes the in-progress key only when the retry was
\* scheduled.
afterProduceRetryNoDefer(retryErr) == IF retryErr = "nil" THEN "removing" ELSE "returned"

\* Where consume goes after produceRetry, whatever produceRetry returned:
\* to its return, on which the deferred removeInProgressTask runs.
afterProduceRetry(retryErr) == "removing"

\* A consume that goes on to produceRetry whatever the handler returned.
afterHandlerRetryAlways(ok) == "retrying"

\* Where consume goes when the handler has returned: to its return when
\* the error is nil, else to produceRetry.
afterHandler(ok) == IF ok THEN "removing" ELSE "retrying"

\* A Consume that returns when consume returns an error.
afterConsumeStopOnError(res) == IF res.err = "nil" THEN "idle" ELSE "stopped"

\* Where Consume goes after consume has returned res: it logs an error and
\* goes round the for loop to the select.
afterConsume(res) == "idle"

\* ------------------------------------------------------------ the store

\* ZADD key score member: a sorted set holds a member once; adding it again
\* moves it to the new score.  at is history: the time.Time the score was
\* taken from.
ZAdd(set, member, score, at) ==
    {e \in set : e.member # member} \cup
        {[member |-> member, score |-> score, at |-> at]}

\* The claim script (consume.lua), step 1: the entries with score <= ts, and
\* among them those of the lowest score.  Which of several entries of the
\* lowest score the store returns is the store's choice.
Due(set, ts) == {e \in set : e.score <= ts}

Lowest(set, ts) == {e \in Due(set, ts) : \A f \in Due(set, ts) : e.score <= f.score}

\* A claim script that returns the entry and leaves it in the schedule.
ScriptRemoveNothing(set, e) == set

\* The claim script, step 2 (a): the schedule without the claimed entry.
ScriptRemove(set, e) == set \ {e}

\* The claim script, step 2 (b): the value at the in-progress key.
ScriptRecord(e) == {e.member}

\* An in-progress key built without the worker's id: one key for all.
inProgressTaskKeyShared(w) == CHOOSE v \in Workers : TRUE

\* getTask's keys: KEYS[2] is the calling worker's own in-progress key.
inProgressTaskKey(w) == w

\* getTask's args: ARGV[1] is now.Unix().
getTaskArg(t) == Unix(t)

\* A score rounded up to the next whole second.
produceAtScoreUp(executeAt) == Unix(executeAt) + 1

\* produceAt's score: float64(executeAt.Unix()).
produceAtScore(executeAt) == Unix(executeAt)

\* A ceiling test that lets one more retry through.
maxRetriesExceededLate(mr, t) == mr >= 0 /\ t.RetryCount > mr

\* produceRetry's ceiling test.
maxRetriesExceeded(mr, t) == mr >= 0 /\ t.RetryCount >= mr

\* produceRetry's wait: one second, or twice the task's wait when that is
\* positive.
retryWait(t) == IF t.Wait > 0 THEN 2 * t.Wait ELSE Second

\* A retryTask that does not carry the id over.
retryTaskNoID(t) ==
    [ID         |-> NilID,
     Payload    |-> t.Payload,
     RetryCount |-> t.RetryCount + 1,
     Wait       |-> retryWait(t)]

\* produceRetry's retryTask.
retryTask(t) ==
    [ID |-> t.ID, Payload |-> t.Payload, RetryCount |-> t.RetryCount + 1,
     Wait |-> retryWait(t)]

\* produceRetry's executeAt: now.Add(wait).
retryExecuteAt(t, clock) == clock + retryWait(t)

\* ------------------------------------------------- time.Duration, int64

\* A time.Duration is an int64 of nanoseconds, in two's complement: here
\* four 16-bit limbs, the least significant first.
Limb == 2^16

Zero64 == <<0, 0, 0, 0>>

\* time.Second: 1000000000 = 15258 * 2^16 + 51712.
Second64 == <<51712, 15258, 0, 0>>

\* d < 0: the sign bit is set.
IsNeg64(d) == d[4] >= Limb \div 2

\* d > 0.
IsPos64(d) == ~IsNeg64(d) /\ d # Zero64

\* 2 * d in int64: the carry out of the top limb is lost.
Double64(d) ==
    LET d1 == 2 * d[1]
        d2 == 2 * d[2] + d1 \div Limb
        d3 == 2 * d[3] + d2 \div Limb
        d4 == 2 * d[4] + d3 \div Limb
    IN  <<d1 % Limb, d2 % Limb, d3 % Limb, d4 % Limb>>

\* produceRetry's wait, from the failed task's Wait.
retryWait64(d) == IF IsPos64(d) THEN Double64(d) ELSE Second64

\* produceRetry's retryTask, the Wait in int64 nanoseconds.
retryTask64(t) ==
    [ID         |-> t.ID,
     Payload    |-> t.Payload,
     RetryCount |-> t.RetryCount + 1,
     Wait       |-> retryWait64(t.Wait)]

\* The Task ProduceAt builds, its Wait in int64 nanoseconds.
NewTask64(id) == [ID |-> id, Payload |-> PayloadOf(id), RetryCount |-> 0, Wait |-> Zero64]

\* -------------------------------------------------------------- initial

\* NewTaskQueue for every worker, against an empty store; the Consume loops
\* are running and blocked in their select.
InitQueue ==
    /\ now = 0
    /\ schedule = {}
    /\ inProgress = [w \in Workers |-> {}]
    /\ maxRetries \in MaxRetriesChoices
    /\ pc = [w \in Workers |-> "idle"]
    /\ task = [w \in Workers |-> NoTask]
    /\ result = [w \in Workers |-> NoResult]
    /\ tickPending = [w \in Workers |-> FALSE]
    /\ cancelled = [w \in Workers |-> FALSE]
    /\ nextID = 1
    /\ crashes = 0
    /\ foreign = 0
    /\ faults = 0
    /\ claim = [w \in Workers |-> NoClaim]
    /\ retry = [w \in Workers |-> NoRetry]
    /\ calls = [w \in Workers |-> <<>>]
    /\ runs = [i \in TaskIDs |-> 0]
    /\ produced = NoReturn
    /\ outcome = [i \in TaskIDs \cup ForeignIDs |-> "none"]

Init == InitQueue /\ chain = NewTask64(NilID)

\* consume's return to Consume, the logging of its error and the jump back
\* to the select make no store call and wait for nothing: it is one local
\* step, taken as soon as consume has returned.  Nothing else is placed
\* between a consume call's last store call and that step.
Quiet == \A w \in Workers : pc[w] # "returned"

\* ----------------------------------------------------------- environment

\* The wall clock advances.
ClockTick ==
    /\ Quiet
    /\ now < MaxNow
    /\ now' = now + 1
    /\ UNCHANGED <<store, loop, maxRetries, nextID, crashes, foreign, chain, produced, faults, hist>>

\* A Consume that polls only while no worker is in a handler.
TickReadyExclusive(w) ==
    (~cancelled[w] \/ tickPending[w]) /\ \A v \in Workers : pc[v] # "handling"

\* Consume's select can take the ticker case.  Until the context is
\* cancelled the ticker is left free: its next tick comes whenever the loop
\* waits for it.  Once the context is cancelled the select chooses between
\* two cases, and whether ticker.C holds a tick is tracked.
TickReady(w) == ~cancelled[w] \/ tickPending[w]

\* A Consume that looks at ctx.Done() only when a tick has arrived.
DoneReadyAtTick(w) == cancelled[w] /\ tickPending[w]

\* Consume's select can take the ctx.Done() case.
DoneReady(w) == cancelled[w]

\* time.Ticker puts a tick in ticker.C while the cancelled loop is busy in
\* consume.  (A loop waiting in select with ctx.Done() closed and no tick
\* in ticker.C has taken the ctx.Done() case.)
TimerFire(w) ==
    /\ \A v \in Workers \ {w} : pc[v] # "returned"
    /\ pc[w] \in {"handling", "retrying", "removing", "returned"}
    /\ cancelled[w]
    /\ ~tickPending[w]
    /\ tickPending' = [tickPending EXCEPT ![w] = TRUE]
    /\ UNCHANGED <<store, pc, task, result, cancelled, env, faults, hist>>

\* The context handed to Consume is cancelled.  If the loop waits in select
\* at that moment, a tick may be arriving at the same moment.
Cancel(w, tick) ==
    /\ Quiet
    /\ pc[w] \notin {"stopped", "crashed"}
    /\ ~cancelled[w]
    /\ tick => pc[w] = "idle"
    /\ cancelled' = [cancelled EXCEPT ![w] = TRUE]
    /\ tickPending' = [tickPending EXCEPT ![w] = tick]
    /\ UNCHANGED <<store, pc, task, result, env, faults, hist>>

\* The worker process dies inside a tick: consume's locals are gone, the
\* store keeps what it holds.
Crash(w) ==
    /\ Quiet
    /\ crashes < MaxCrashes
    /\ pc[w] \in {"handling", "retrying", "removing"}
    /\ pc' = [pc EXCEPT ![w] = "crashed"]
    /\ task' = [task EXCEPT ![w] = NoTask]
    /\ result' = [result EXCEPT ![w] = NoResult]
    /\ tickPending' = [tickPending EXCEPT ![w] = FALSE]
    /\ crashes' = crashes + 1
    /\ claim' = [claim EXCEPT ![w] = NoClaim]
    /\ retry' = [retry EXCEPT ![w] = NoRetry]
    /\ calls' = [calls EXCEPT ![w] = <<>>]
    /\ UNCHANGED <<store, cancelled, now, maxRetries, nextID, foreign, chain, produced, faults, runs, outcome>>

\* The worker is started again: NewTaskQueue loads the script and builds
\* the keys; it reads nothing from the store.  Consume starts a new ticker.
Restart(w) ==
    /\ Quiet
    /\ pc[w] = "crashed"
    /\ pc' = [pc EXCEPT ![w] = "idle"]
    /\ cancelled' = [cancelled EXCEPT ![w] = FALSE]
    /\ UNCHANGED <<store, task, result, tickPending, env, faults, hist>>

\* Another program writes a member to the schedule that is no Task.
ForeignZAdd ==
    /\ Quiet
    /\ foreign < MaxForeign
    /\ foreign' = foreign + 1
    /\ schedule' = ZAdd(schedule, Garbage(foreign'), Unix(now), now)
    /\ UNCHANGED <<inProgress, loop, now, maxRetries, nextID, crashes, chain, produced, faults, hist>>

\* A store call succeeds (ok) or fails; at most MaxFaults calls fail.
StoreCall(ok) ==
    /\ ok \/ faults < MaxFaults
    /\ faults' = IF ok THEN faults ELSE faults + 1

\* ------------------------------------------------------------- producer

\* A produceAt whose ZADD goes to another key than taskQueueKey.
produceAtElsewhere(t, executeAt, zaddOK) == schedule' = schedule

\* produceAt: one ZADD of the marshalled task at score executeAt.Unix(); a
\* failed ZADD adds nothing.
produceAt(t, executeAt, zaddOK) ==
    schedule' = IF zaddOK
                THEN ZAdd(schedule, MarshalBinary(t), produceAtScore(executeAt),
                          executeAt)
                ELSE schedule

\* The Task ProduceAt builds.
NewTask(id, payload) == [ID |-> id, Payload |-> payload, RetryCount |-> 0, Wait |-> 0]

\* A ProduceAt that returns the task's id whatever produceAt returned.
ProduceAtReturnID(t, zaddOK) ==
    [id |-> t.ID, err |-> IF zaddOK THEN "nil" ELSE "failed to produce task"]

\* ProduceAt's return values: uuid.Nil and the wrapped error of produceAt,
\* or the task's id and nil.
ProduceAtReturn(t, zaddOK) ==
    IF zaddOK THEN [id |-> t.ID, err |-> "nil"]
    ELSE [id |-> NilID, err |-> "failed to produce task"]

\* ProduceAt(ctx, payload, executeAt): a new Task with a fresh id.
ProduceAt(payload, executeAt, zaddOK) ==
    /\ Quiet
    /\ nextID \in TaskIDs
    /\ nextID' = nextID + 1
    /\ StoreCall(zaddOK)
    /\ produceAt(NewTask(nextID, payload), executeAt, zaddOK)
    /\ produced' = ProduceAtReturn(NewTask(nextID, payload), zaddOK)
    /\ UNCHANGED <<inProgress, loop, now, maxRetries, crashes, foreign, chain, hist>>

\* ------------------------------------------------------------- consumer

\* Consume's select takes the ticker case and calls consume, whose getTask
\* gets an error from EvalSha: consume returns it.
GetTaskStoreError(w) ==
    /\ Quiet
    /\ pc[w] = "idle"
    /\ TickReady(w)
    /\ tickPending' = [tickPending EXCEPT ![w] = FALSE]
    /\ StoreCall(FALSE)
    /\ result' = [result EXCEPT ![w] = ErrGetTask("EvalSha")]
    /\ pc' = [pc EXCEPT ![w] = "returned"]
    /\ calls' = [calls EXCEPT ![w] = <<"EvalSha:err">>]
    /\ UNCHANGED <<store, task, cancelled, env, claim, retry, runs, outcome>>

\* ... the script finds no entry with score <= now.Unix() and answers
\* StatusOK: getTask returns ErrNoTaskToConsume and consume returns nil.
GetTaskEmpty(w) ==
    /\ Quiet
    /\ pc[w] = "idle"
    /\ TickReady(w)
    /\ Due(schedule, getTaskArg(now)) = {}
    /\ tickPending' = [tickPending EXCEPT ![w] = FALSE]
    /\ result' = [result EXCEPT ![w] = consumeNoTask]
    /\ pc' = [pc EXCEPT ![w] = "returned"]
    /\ calls' = [calls EXCEPT ![w] = <<"EvalSha:OK">>]
    /\ UNCHANGED <<store, task, cancelled, env, faults, claim, retry, runs, outcome>>

\* ... the script claims entry e: it is removed from the schedule and
\* recorded at the worker's in-progress key in the script's one step.
\* getTask then unmarshals the member; consume defers the DEL and calls the
\* handler.  A member that does not unmarshal makes consume return before
\* the defer.
GetTaskClaim(w, e) ==
    /\ Quiet
    /\ pc[w] = "idle"
    /\ TickReady(w)
    /\ e \in Lowest(schedule, getTaskArg(now))
    /\ tickPending' = [tickPending EXCEPT ![w] = FALSE]
    /\ schedule' = ScriptRemove(schedule, e)
    /\ inProgress' = [inProgress EXCEPT ![inProgressTaskKey(w)] = ScriptRecord(e)]
    /\ claim' = [claim EXCEPT ![w] =
                    [entry |-> e, now |-> now]]
    /\ IF UnmarshalOK(e.member)
       THEN /\ task' = [task EXCEPT ![w] = Unmarshal(e.member)]
            /\ pc' = [pc EXCEPT ![w] = "handling"]
            /\ runs' = [runs EXCEPT ![Unmarshal(e.member).ID] = @ + 1]
            /\ calls' = [calls EXCEPT ![w] = <<"EvalSha:task", "handler">>]
            /\ UNCHANGED <<result, outcome>>
       ELSE /\ result' = [result EXCEPT ![w] = ErrGetTask("Unmarshal")]
            /\ pc' = [pc EXCEPT ![w] = "returned"]
            /\ calls' = [calls EXCEPT ![w] = <<"EvalSha:task">>]
            /\ outcome' = [outcome EXCEPT ![e.member.body.ID] = "corrupt"]
            /\ UNCHANGED <<task, runs>>
    /\ UNCHANGED <<cancelled, env, faults, retry>>

\* The handler returns: nil, or an error.
HandlerReturn(w, ok) ==
    /\ Quiet
    /\ pc[w] = "handling"
    /\ IF ok
       THEN /\ result' = [result EXCEPT ![w] = ResultNil]
            /\ outcome' = [outcome EXCEPT ![task[w].ID] = "completed"]
       ELSE /\ UNCHANGED <<result, outcome>>
    /\ pc' = [pc EXCEPT ![w] = afterHandler(ok)]
    /\ UNCHANGED <<store, task, tickPending, cancelled, env, faults, claim, retry, calls, runs>>

\* produceRetry after a handler error, and consume's return value after it:
\* ErrTaskLost around whatever error produceRetry returned, else the
\* handler's error.
produceRetry(w, zaddOK) ==
    /\ Quiet
    /\ pc[w] = "retrying"
    /\ IF maxRetriesExceeded(maxRetries, task[w])
       THEN /\ result' = [result EXCEPT ![w] = ErrTaskLost("ErrMaxTaskReties")]
            /\ retry' = [retry EXCEPT ![w] =
                    [old |-> task[w], new |-> NoTask, now |-> now, wait |-> 0,
                     at |-> -1, err |-> "ErrMaxTaskReties"]]
            /\ calls' = [calls EXCEPT ![w] = Append(@, "produceRetry")]
            /\ outcome' = [outcome EXCEPT ![task[w].ID] = "dropped"]
            /\ zaddOK
            /\ UNCHANGED <<schedule, faults>>
       ELSE /\ StoreCall(zaddOK)
            /\ produceAt(retryTask(task[w]), retryExecuteAt(task[w], now), zaddOK)
            /\ result' = [result EXCEPT ![w] =
                    IF zaddOK THEN ErrConsumeFunc ELSE ErrTaskLost("ZAdd")]
            /\ retry' = [retry EXCEPT ![w] =
                    [old |-> task[w], new |-> retryTask(task[w]), now |-> now,
                     wait |-> retryWait(task[w]),
                     at |-> retryExecuteAt(task[w], now),
                     err |-> IF zaddOK THEN "nil" ELSE "ZAdd"]]
            /\ calls' = [calls EXCEPT ![w] = Append(@, "produceRetry:ZAdd")]
            /\ outcome' = [outcome EXCEPT ![task[w].ID] =
                    IF zaddOK THEN @ ELSE "lost"]
    /\ pc' = [pc EXCEPT ![w] = afterProduceRetry(retry'[w].err)]
    /\ UNCHANGED <<inProgress, task, tickPending, cancelled, env, claim, runs>>

\* The deferred removeInProgressTask: DEL of the worker's in-progress key;
\* an error is logged.  Then consume returns what it had set to return, and
\* its locals are gone.
removeInProgressTask(w, delOK) ==
    /\ Quiet
    /\ pc[w] = "removing"
    /\ StoreCall(delOK)
    /\ inProgress' = IF delOK
                     THEN [inProgress EXCEPT ![inProgressTaskKey(w)] = {}]
                     ELSE inProgress
    /\ calls' = [calls EXCEPT ![w] = Append(@, IF delOK THEN "Del" ELSE "Del:err")]
    /\ pc' = [pc EXCEPT ![w] = "returned"]
    /\ task' = [task EXCEPT ![w] = NoTask]
    /\ claim' = [claim EXCEPT ![w] = NoClaim]
    /\ retry' = [retry EXCEPT ![w] = NoRetry]
    /\ UNCHANGED <<schedule, result, tickPending, cancelled, env, runs, outcome>>

\* Consume logs the error consume returned, if any, and goes round its loop
\* to the select.
ConsumeLoop(w) ==
    /\ pc[w] = "returned"
    /\ pc' = [pc EXCEPT ![w] = afterConsume(result[w])]
    /\ task' = [task EXCEPT ![w] = NoTask]
    /\ result' = [result EXCEPT ![w] = NoResult]
    /\ claim' = [claim EXCEPT ![w] = NoClaim]
    /\ retry' = [retry EXCEPT ![w] = NoRetry]
    /\ calls' = [calls EXCEPT ![w] = <<>>]
    /\ UNCHANGED <<store, tickPending, cancelled, env, faults, runs, outcome>>

\* Consume's select takes the ctx.Done() case and returns.
ConsumeStop(w) ==
    /\ Quiet
    /\ pc[w] = "idle"
    /\ DoneReady(w)
    /\ pc' = [pc EXCEPT ![w] = "stopped"]
    /\ UNCHANGED <<store, task, result, tickPending, cancelled, env, faults, hist>>

\* ------------------------------------------------------- specification

\* runProducer: ProduceAt at some time from now on, the store call failing
\* or not.
Produce ==
    \E d \in 0..MaxDelay, ok \in BOOLEAN : ProduceAt(PayloadOf(nextID), now + d, ok)

\* One tick of a worker's Consume loop, store call by store call.
ConsumeStep(w) ==
    \/ GetTaskStoreError(w)
    \/ GetTaskEmpty(w)
    \/ \E e \in schedule : GetTaskClaim(w, e)
    \/ \E ok \in BOOLEAN : HandlerReturn(w, ok)
    \/ \E ok \in BOOLEAN : produceRetry(w, ok)
    \/ \E ok \in BOOLEAN : removeInProgressTask(w, ok)
    \/ ConsumeLoop(w)

\* Producers and workers on one store, store calls failing; no worker is
\* cancelled or dies.
Next ==
    \/ ClockTick
    \/ Produce
    \/ \E w \in Workers : ConsumeStep(w)

Spec == Init /\ [][Next]_vars

\* The worker of one process, as the example starts it, seen through
\* everything that can happen to it: store calls failing, cancellation with
\* the ticker still firing, its death and restart, and members in the
\* schedule that are no Task, around the first task produced.
LoopWorkers == {"w1"}

NextLoop ==
    \/ ClockTick
    \/ nextID = 1 /\ Produce
    \/ ForeignZAdd
    \/ \E w \in LoopWorkers : ConsumeStep(w)
    \/ \E w \in LoopWorkers : TimerFire(w)
    \/ \E w \in LoopWorkers, tick \in BOOLEAN : Cancel(w, tick)
    \/ \E w \in LoopWorkers : ConsumeStop(w)
    \/ \E w \in LoopWorkers : Crash(w)
    \/ \E w \in LoopWorkers : Restart(w)

SpecLoop == Init /\ [][NextLoop]_vars

\* The loop of one worker around the first task produced, every member of
\* the schedule being a Task.
NextCancel ==
    \/ ClockTick
    \/ nextID = 1 /\ Produce
    \/ \E w \in LoopWorkers : ConsumeStep(w)
    \/ \E w \in LoopWorkers : TimerFire(w)
    \/ \E w \in LoopWorkers, tick \in BOOLEAN : Cancel(w, tick)
    \/ \E w \in LoopWorkers : ConsumeStop(w)
    \/ \E w \in LoopWorkers : Crash(w)
    \/ \E w \in LoopWorkers : Restart(w)

\* That loop where the clock goes on, the worker's ticker keeps firing, its
\* calls and its handler return, and the select, which chooses at random
\* among its ready cases, does not pass over the ctx.Done() case for ever.
SpecCancel ==
    /\ Init
    /\ [][NextCancel]_vars
    /\ WF_vars(ClockTick)
    /\ \A w \in LoopWorkers : SF_vars(ConsumeStep(w)) /\ SF_vars(ConsumeStop(w))

\* One worker process dies between the claim and the end of produceRetry.
CrashInHandler(w) == pc[w] \in {"handling", "retrying"} /\ Crash(w)

\* One task and no failing store call; a worker may die while it holds the
\* task and is started again.
NextCrash ==
    \/ ClockTick
    \/ nextID = 1 /\ \E d \in 0..MaxDelay : ProduceAt(PayloadOf(nextID), now + d, TRUE)
    \/ \E w \in Workers : GetTaskEmpty(w)
    \/ \E w \in Workers, e \in schedule : GetTaskClaim(w, e)
    \/ \E w \in Workers, ok \in BOOLEAN : HandlerReturn(w, ok)
    \/ \E w \in Workers : produceRetry(w, TRUE)
    \/ \E w \in Workers : removeInProgressTask(w, TRUE)
    \/ \E w \in Workers : ConsumeLoop(w)
    \/ \E w \in Workers : CrashInHandler(w)
    \/ \E w \in Workers : Restart(w)

\* What a worker does when it is given the processor: the steps of its
\* Consume loop, and its restart after it has died.
WorkerStep(w) ==
    \/ GetTaskEmpty(w)
    \/ \E e \in schedule : GetTaskClaim(w, e)
    \/ \E ok \in BOOLEAN : HandlerReturn(w, ok)
    \/ produceRetry(w, TRUE)
    \/ removeInProgressTask(w, TRUE)
    \/ ConsumeLoop(w)
    \/ Restart(w)

\* The clock goes on, every ticker keeps firing, every call returns and a
\* dead worker is started again.
SpecCrash ==
    /\ Init
    /\ [][NextCrash]_vars
    /\ WF_vars(ClockTick)
    /\ \A w \in Workers : SF_vars(WorkerStep(w))

\* The workers whose handler never returns, and the others.
Stuck == {"w1"}

Free == Workers \ Stuck

\* No failing store call; the handler of a worker in Stuck never returns.
NextStuck ==
    \/ ClockTick
    \/ \E d \in 0..MaxDelay : ProduceAt(PayloadOf(nextID), now + d, TRUE)
    \/ \E w \in Workers : GetTaskEmpty(w)
    \/ \E w \in Workers, e \in schedule : GetTaskClaim(w, e)
    \/ \E w \in Free, ok \in BOOLEAN : HandlerReturn(w, ok)
    \/ \E w \in Free : produceRetry(w, TRUE)
    \/ \E w \in Free : removeInProgressTask(w, TRUE)
    \/ \E w \in Workers : ConsumeLoop(w)

\* What a worker does up to its handler call.
PollStep(w) ==
    \/ GetTaskEmpty(w)
    \/ \E e \in schedule : GetTaskClaim(w, e)
    \/ ConsumeLoop(w)

\* The clock goes on; every ticker keeps firing and every store call
\* returns; the handlers of the workers in Free return.
SpecStuck ==
    /\ Init
    /\ [][NextStuck]_vars
    /\ WF_vars(ClockTick)
    /\ \A w \in Stuck : SF_vars(PollStep(w))
    /\ \A w \in Free : SF_vars(WorkerStep(w))

\* The wall clock goes on beyond MaxNow while a schedule entry waits for
\* its time.
ClockWait ==
    /\ Quiet
    /\ now >= MaxNow
    /\ \E e \in schedule : e.score > getTaskArg(now)
    /\ now' = now + 1
    /\ UNCHANGED <<store, loop, maxRetries, nextID, crashes, foreign, chain, produced, faults, hist>>

\* What a worker does from the handler's return to the select.
FinishStep(w) ==
    \/ \E ok \in BOOLEAN : HandlerReturn(w, ok)
    \/ produceRetry(w, TRUE)
    \/ removeInProgressTask(w, TRUE)
    \/ ConsumeLoop(w)

\* One task; no failing store call, no cancellation, no death; every
\* handler returns, with an error at most MaxFails times for the task.
NextLive ==
    \/ ClockTick
    \/ ClockWait
    \/ nextID = 1 /\ \E d \in 0..MaxDelay : ProduceAt(PayloadOf(nextID), now + d, TRUE)
    \/ \E w \in Workers : GetTaskEmpty(w)
    \/ \E w \in Workers, e \in schedule : GetTaskClaim(w, e)
    \/ \E w \in Workers : HandlerReturn(w, TRUE)
    \/ \E w \in Workers : task[w].RetryCount < MaxFails /\ HandlerReturn(w, FALSE)
    \/ \E w \in Workers : produceRetry(w, TRUE)
    \/ \E w \in Workers : removeInProgressTask(w, TRUE)
    \/ \E w \in Workers : ConsumeLoop(w)

\* Time advances, every call under way returns, and the ticker of the
\* workers in Free keeps firing; the other worker may stop polling.
SpecLive ==
    /\ Init
    /\ [][NextLive]_vars
    /\ SF_vars(ClockTick \/ ClockWait)
    /\ \A w \in Workers : SF_vars(FinishStep(w))
    /\ \A w \in Free : SF_vars(WorkerStep(w))

\* produceRetry for a task whose handler has failed again: the retry
\* ceiling, then the new Task.  (Its ZADD is in Spec.)
RetryChain ==
    /\ chain.RetryCount < MaxChain
    /\ ~maxRetriesExceeded(maxRetries, chain)
    /\ chain' = retryTask64(chain)
    /\ UNCHANGED <<store, loop, now, maxRetries, nextID, crashes, foreign, produced, faults, hist>>

\* The consecutive failures of one task, from the Task ProduceAt built.
InitBackoff == InitQueue /\ \E i \in TaskIDs : chain = NewTask64(i)

NextBackoff == RetryChain

SpecBackoff == InitBackoff /\ [][NextBackoff]_vars

\* ------------------------------------------------------------- claims

\* The workers inside a consume call that holds a claimed entry.
Holding(w) == claim[w] # NoClaim

\* C1: no two claim invocations return the same schedule entry: two workers
\* never hold the same member at once, a member a worker holds is not in the
\* schedule, and over a task's whole life each of its entries is returned
\* once (until the holder of an entry has rescheduled it, the handler
\* invocations of the task number the entry's retry count plus one).
C1_NoDoubleClaim ==
    /\ \A w1, w2 \in Workers :
          (w1 # w2 /\ Holding(w1) /\ Holding(w2))
              => claim[w1].entry.member # claim[w2].entry.member
    /\ \A w \in Workers :
          Holding(w) => \A e \in schedule : e.member # claim[w].entry.member
    /\ \A w \in Workers :
          (pc[w] \in {"handling", "retrying"})
              => runs[claim[w].entry.member.body.ID]
                    = claim[w].entry.member.body.RetryCount + 1

\* C1 witness: two workers ran the claim at the same clock reading; one got
\* the task, the other the 'no task' answer.
C1_Witness ==
    \E w1, w2 \in Workers :
        /\ pc[w1] = "handling" /\ claim[w1].now = now
        /\ pc[w2] = "returned" /\ calls[w2] = <<"EvalSha:OK">>
        /\ schedule = {}

\* C2 as stated: a task scheduled with executeAt = T is never returned by a
\* claim invoked with now < T, and is eligible whenever now >= T while it is
\* in the schedule.
C2_AsStated ==
    /\ \A w \in Workers : Holding(w) => claim[w].now >= claim[w].entry.at
    /\ \A e \in schedule : now >= e.at => e \in Due(schedule, getTaskArg(now))

\* C2, amended: a task scheduled with executeAt = T is never returned by a
\* claim invoked at a time whose whole Unix second lies before T's whole
\* Unix second (so it can be returned less than a second before T), and it
\* is eligible whenever now >= T while it is in the schedule.
C2_Eligibility ==
    /\ \A w \in Workers :
          Holding(w) => Unix(claim[w].now) >= Unix(claim[w].entry.at)
    /\ \A e \in schedule : now >= e.at => e \in Due(schedule, getTaskArg(now))

\* C2 witness: a task scheduled for a later time has been claimed in the
\* Unix second of its executeAt, before executeAt itself.
C2_Witness ==
    \E w \in Workers :
        /\ Holding(w)
        /\ UnmarshalOK(claim[w].entry.member)
        /\ claim[w].now < claim[w].entry.at
        /\ Unix(claim[w].now) = Unix(claim[w].entry.at)

\* The step is worker w's getTask, and its EvalSha ran the claim script.
ScriptRan(w) ==
    /\ pc[w] = "idle"
    /\ calls'[w] # <<>>
    /\ Head(calls'[w]) # "EvalSha:err"

\* C3: when some entry has score <= now, the claim returns an entry of the
\* lowest score in the whole schedule, and the same step removes it from
\* the schedule and records it at the calling worker's in-progress key.
C3_ClaimResult ==
    [][\A w \in Workers :
          (ScriptRan(w) /\ Due(schedule, Unix(now)) # {})
              => \E e \in schedule :
                    /\ \A f \in schedule : e.score <= f.score
                    /\ claim'[w].entry = e
                    /\ schedule' = schedule \ {e}
                    /\ inProgress'[w] = {e.member}
                    /\ \A v \in Workers \ {w} : inProgress'[v] = inProgress[v]]_vars

\* C3 witness: a worker has just claimed the entry of the lowest score and
\* left a due entry of a higher score in the schedule.
C3_Witness ==
    \E w \in Workers :
        /\ pc[w] = "handling"
        /\ claim[w].now = now
        /\ inProgress[w] = {claim[w].entry.member}
        /\ \E f \in schedule :
              claim[w].entry.score < f.score /\ f.score <= Unix(now)

\* C4: when no entry has score <= now, the claim answers 'no task': consume
\* returns nil, no handler runs, the store is not written, no store call
\* failed, and the worker goes back to its select.
C4_EmptyClaim ==
    [][\A w \in Workers :
          /\ (ScriptRan(w) /\ Due(schedule, Unix(now)) = {})
                => /\ calls'[w] = <<"EvalSha:OK">>
                   /\ result'[w] = ResultNil
                   /\ pc'[w] = "returned"
                   /\ UNCHANGED <<schedule, inProgress, runs, faults>>
          /\ (pc[w] = "returned" /\ pc'[w] # "returned")
                => /\ pc'[w] = "idle"
                   /\ UNCHANGED <<schedule, inProgress, runs, faults>>]_vars

\* C4 witness: a claim found entries in the schedule, none of them due, and
\* consume has returned nil.
C4_Witness ==
    \E w \in Workers :
        /\ pc[w] = "returned"
        /\ calls[w] = <<"EvalSha:OK">>
        /\ result[w] = ResultNil
        /\ schedule # {}

\* d as a signed number of five limbs.
Widen(d) == Append(d, IF IsNeg64(d) THEN Limb - 1 ELSE 0)

\* 2 * d for an int64 d, as a signed number of five limbs: nothing is lost.
Twice(d) ==
    LET x  == Widen(d)
        d1 == 2 * x[1]
        d2 == 2 * x[2] + d1 \div Limb
        d3 == 2 * x[3] + d2 \div Limb
        d4 == 2 * x[4] + d3 \div Limb
        d5 == 2 * x[5] + d4 \div Limb
    IN  <<d1 % Limb, d2 % Limb, d3 % Limb, d4 % Limb, d5 % Limb>>

\* x < y for signed numbers of five limbs.
RECURSIVE LessFrom(_, _, _)
LessFrom(x, y, k) ==
    IF k = 0 THEN FALSE
    ELSE IF x[k] # y[k] THEN x[k] < y[k]
    ELSE LessFrom(x, y, k - 1)

Less(x, y) ==
    LET nx == x[5] >= Limb \div 2
        ny == y[5] >= Limb \div 2
    IN  IF nx # ny THEN nx ELSE LessFrom(x, y, 5)

\* max(time.Second, 2 * d) as a number.
MaxSecondTwice(d) ==
    IF Less(Twice(d), Widen(Second64)) THEN Widen(Second64) ELSE Twice(d)

\* C5 as stated: every reschedule keeps the id and the payload, adds one to
\* the retry count and sets the wait to max(1 second, 2 x the wait before),
\* so the waits of consecutive failures are 1, 2, 4, 8, ... seconds.
C5_AsStated ==
    [][chain' # chain =>
          /\ chain'.ID = chain.ID
          /\ chain'.Payload = chain.Payload
          /\ chain'.RetryCount = chain.RetryCount + 1
          /\ Widen(chain'.Wait) = MaxSecondTwice(chain.Wait)]_vars

\* C6: a failed task is dropped with ErrMaxTaskReties, and not put back in
\* the schedule, exactly when maxRetries >= 0 and its retry count has
\* reached maxRetries; with maxRetries = k >= 0 that is the task's (k+1)-th
\* handler invocation and no task is handled more than k+1 times; with
\* maxRetries < 0 no task is ever dropped.
C6_RetryCeiling ==
    /\ \A w \in Workers :
          retry[w] # NoRetry =>
              /\ (retry[w].err = "ErrMaxTaskReties")
                    <=> (maxRetries >= 0 /\ retry[w].old.RetryCount >= maxRetries)
              /\ (retry[w].err = "ErrMaxTaskReties") =>
                    /\ runs[retry[w].old.ID] = maxRetries + 1
                    /\ \A e \in schedule : e.member.body.ID # retry[w].old.ID
    /\ \A i \in TaskIDs : maxRetries >= 0 => runs[i] <= maxRetries + 1
    /\ \A w \in Workers : maxRetries < 0 => result[w].cause # "ErrMaxTaskReties"

\* C6 witness: with maxRetries = 1 a task has been rescheduled after its
\* first failure and dropped on its second.
C6_Witness ==
    \E w \in Workers :
        /\ maxRetries = 1
        /\ retry[w].err = "ErrMaxTaskReties"
        /\ runs[retry[w].old.ID] = 2

\* The task a dead worker had claimed is, or is again, where a worker can
\* get it or has it: in the schedule or in a handler.
Available(i) ==
    \/ \E e \in schedule : e.member.body.ID = i
    \/ \E w \in Workers : pc[w] = "handling" /\ task[w].ID = i

\* C7 as stated: when a worker dies after its claim took a task from the
\* schedule and before the handler completed or the failed task was
\* rescheduled, the task is eventually in the schedule again or handled.
C7_AsStated ==
    \A w \in Workers, i \in TaskIDs :
        (pc[w] = "crashed" /\ \E m \in inProgress[w] : m.body.ID = i)
            ~> Available(i)

\* The two answers of the DEL in the history of calls.
Dels == {"Del", "Del:err"}

\* C8: a consume call that invoked the handler ends with the DEL of the
\* worker's in-progress key, whatever the outcome; on the failure path
\* produceRetry comes before the DEL; and the DEL, failing or not, leaves
\* consume's return value as it was.
C8_MarkerCleared ==
    [][\A w \in Workers :
          /\ (pc[w] \in {"handling", "retrying", "removing"} /\ pc'[w] = "returned")
                => /\ calls'[w][Len(calls'[w])] \in Dels
                   /\ result'[w] = result[w]
          /\ pc'[w] = "returned" =>
                \/ Len(calls'[w]) = 1
                \/ /\ Len(calls'[w]) = 3
                   /\ calls'[w][2] = "handler" /\ calls'[w][3] \in Dels
                   /\ result'[w] = ResultNil
                \/ /\ Len(calls'[w]) = 4
                   /\ calls'[w][2] = "handler" /\ calls'[w][4] \in Dels
                   /\ calls'[w][3] \in {"produceRetry", "produceRetry:ZAdd"}
                   /\ result'[w].err \in {"failed to run consume func", "ErrTaskLost"}]_vars

\* C8 witness: the handler failed, the task was dropped at the retry
\* ceiling, the DEL failed, and consume returned what it had set to return.
C8_Witness ==
    \E w \in Workers :
        /\ pc[w] = "returned"
        /\ calls[w] = <<"EvalSha:task", "handler", "produceRetry", "Del:err">>
        /\ result[w] = ErrTaskLost("ErrMaxTaskReties")
        /\ inProgress[w] # {}

\* The step is worker w taking the ticker case with the claim script
\* answering.
ClaimStep(w) == GetTaskEmpty(w) \/ \E e \in schedule : GetTaskClaim(w, e)

\* C9: whatever consume returned, Consume goes back to its select, from
\* which the next claim can be issued while the context is not cancelled;
\* the loop stops only from its select and only when the context is
\* cancelled.
C9_LoopResilience ==
    /\ [](\A w \in Workers : pc[w] = "stopped" => cancelled[w])
    /\ [](\A w \in Workers :
            (Quiet /\ pc[w] = "idle" /\ ~cancelled[w]) => ENABLED ClaimStep(w))
    /\ [][\A w \in Workers :
            /\ (pc[w] = "returned" /\ pc'[w] # "returned")
                  => (pc'[w] = "idle" /\ cancelled'[w] = cancelled[w])
            /\ (pc[w] # "stopped" /\ pc'[w] = "stopped")
                  => (pc[w] = "idle" /\ cancelled[w])]_vars

\* C9 witness: consume has returned ErrTaskLost after a failed ZADD and a
\* DEL, and the context is not cancelled.
C9_Witness ==
    \E w \in Workers :
        /\ pc[w] = "returned"
        /\ result[w] = ErrTaskLost("ZAdd")
        /\ ~cancelled[w]

\* C10 as stated: after a handler failure consume returns ErrTaskLost
\* exactly when the ZADD of the retry failed; a drop at the retry ceiling is
\* returned as ErrMaxTaskReties and not as ErrTaskLost; a successful
\* reschedule returns neither.
C10_AsStated ==
    \A w \in Workers :
        retry[w] # NoRetry =>
            /\ (result[w].err = "ErrTaskLost") <=> (retry[w].err = "ZAdd")
            /\ (retry[w].err = "ErrMaxTaskReties")
                  => result[w].err = "ErrMaxTaskReties"
            /\ (retry[w].err = "nil")
                  => result[w].err \notin {"ErrTaskLost", "ErrMaxTaskReties"}

\* The ids of the tasks that are somewhere: in the schedule, under an
\* in-progress key or in a consume call.
IDsInUse ==
    {e.member.body.ID : e \in schedule}
        \cup {m.body.ID : m \in UNION {inProgress[w] : w \in Workers}}
        \cup {task[w].ID : w \in Workers}

\* C11: a ProduceAt whose ZADD succeeds adds exactly one entry to the
\* schedule: a Task with an id that no task before had, retry count 0, wait
\* 0 and the caller's payload, due at executeAt (stored in Unix seconds);
\* it returns that id and nil, and changes no other entry and no
\* in-progress key.  A ProduceAt whose ZADD fails returns uuid.Nil and an
\* error, and the schedule is as before.
C11_ProduceAtEffect ==
    [][nextID' # nextID =>
          /\ inProgress' = inProgress
          /\ produced'.err \in {"nil", "failed to produce task"}
          /\ (produced'.err = "nil") =>
                \E e \in schedule' :
                    /\ e \notin schedule
                    /\ schedule' = schedule \cup {e}
                    /\ e.member = MarshalBinary(NewTask(produced'.id, PayloadOf(nextID)))
                    /\ produced'.id # NilID
                    /\ produced'.id # produced.id
                    /\ produced'.id \notin IDsInUse
                    /\ \A i \in TaskIDs : runs[i] > 0 => i # produced'.id
                    /\ e.at \in now..(now + MaxDelay)
                    /\ e.score = Unix(e.at)
          /\ (produced'.err # "nil") =>
                /\ produced'.id = NilID
                /\ schedule' = schedule]_vars

\* C11 witness: the second ProduceAt has returned its id while the first
\* task is still in the schedule.
C11_Witness ==
    /\ produced = [id |-> 2, err |-> "nil"]
    /\ \E e \in schedule : e.member.body.ID = 1
    /\ \E e \in schedule : e.member.body.ID = 2

\* C12 as stated: from one reschedule of a task to the next its id is the
\* same and neither its retry count nor its wait, an int64 of nanoseconds,
\* is lower than before.
C12_AsStated ==
    [][chain' # chain =>
          /\ chain'.ID = chain.ID
          /\ chain'.RetryCount >= chain.RetryCount
          /\ ~Less(Widen(chain'.Wait), Widen(chain.Wait))]_vars

\* C13: once a handler has returned nil for a task, the task is not in the
\* schedule again and no worker's handler is invoked for its id again.
C13_SuccessFinal ==
    \A i \in TaskIDs :
        outcome[i] = "completed" =>
            /\ \A e \in schedule : e.member.body.ID # i
            /\ \A w \in Workers : pc[w] \in {"handling", "retrying"} => task[w].ID # i

\* C13 witness: a task has failed once and then succeeded, its in-progress
\* key is deleted and time has gone on with every worker back in its select.
C13_Witness ==
    \E i \in TaskIDs :
        /\ outcome[i] = "completed"
        /\ runs[i] = 2
        /\ \A w \in Workers : pc[w] = "idle" /\ inProgress[w] = {}
        /\ now = MaxNow

\* C14: while a worker sits in a handler that never returns, the other
\* worker goes on completing ticks, and every task that is due in the
\* schedule is claimed by it and handed to its handler.
C14_WorkerIndependence ==
    /\ \A v \in Free : []<>(pc[v] = "returned")
    /\ \A i \in TaskIDs :
          ((\E w \in Stuck : pc[w] = "handling")
              /\ (\E e \in Due(schedule, getTaskArg(now)) : e.member.body.ID = i))
            ~> (\E v \in Free : pc[v] = "handling" /\ task[v].ID = i)

\* C14 witness: one worker is in the handler that never returns and the
\* other is in its handler with another task, claimed after the first.
C14_Witness ==
    \E w \in Stuck, v \in Free :
        /\ pc[w] = "handling" /\ pc[v] = "handling"
        /\ task[w].ID # task[v].ID
        /\ claim[w].now < claim[v].now

\* C15: once the context is cancelled the Consume loop stops (unless the
\* process dies first); it can stop from its select with no tick in
\* ticker.C; and it stops from its select only, so a consume call under way
\* goes through its handler, produceRetry and DEL before the loop stops.
C15_Cancellation ==
    /\ \A w \in LoopWorkers :
          cancelled[w] ~> (pc[w] \in {"stopped", "crashed"})
    /\ [](\A w \in LoopWorkers :
            (Quiet /\ pc[w] = "idle" /\ cancelled[w]) => ENABLED ConsumeStop(w))
    /\ [](\A w \in LoopWorkers :
            pc[w] = "stopped" =>
                task[w] = NoTask /\ calls[w] = <<>> /\ result[w] = NoResult)
    /\ [][\A w \in LoopWorkers :
            /\ (pc[w] # "stopped" /\ pc'[w] = "stopped") => pc[w] = "idle"
            /\ (cancelled[w] /\ pc[w] = "handling")
                  => pc'[w] \in {"handling", "retrying", "removing", "crashed"}
            /\ (cancelled[w] /\ pc[w] = "retrying")
                  => pc'[w] \in {"retrying", "removing", "crashed"}
            /\ (cancelled[w] /\ pc[w] = "removing")
                  => pc'[w] \in {"removing", "returned", "crashed"}]_vars

\* C15 witness: the context was cancelled with no tick in ticker.C while
\* the handler was running; the handler has failed, the task is rescheduled
\* and the DEL is next.
C15_Witness ==
    \E w \in LoopWorkers :
        /\ cancelled[w] /\ ~tickPending[w]
        /\ pc[w] = "removing"
        /\ retry[w].err = "nil"

\* The member is the JSON of a Task.
IsTask(member) == member.json

\* C16: when the claim returns a member that is no Task, consume returns
\* the error of getTask around the unmarshalling error, which is neither
\* nil (no task) nor the error around a failed EVALSHA; the handler is not
\* called; the member has left the schedule and is never in it again; and
\* Consume goes on to its select.
C16_CorruptTask ==
    /\ [](\A w \in Workers :
            (Holding(w) /\ ~IsTask(claim[w].entry.member)) =>
                /\ pc[w] = "returned"
                /\ calls[w] = <<"EvalSha:task">>
                /\ result[w] = ErrGetTask("Unmarshal")
                /\ result[w] \notin {ResultNil, ErrGetTask("EvalSha"), consumeNoTask}
                /\ task[w] = NoTask)
    /\ [](\A e \in schedule :
            ~IsTask(e.member) => outcome[e.member.body.ID] # "corrupt")
    /\ [][\A w \in Workers :
            (pc[w] = "returned" /\ result[w] = ErrGetTask("Unmarshal")
                /\ pc'[w] # "returned")
              => (pc'[w] = "idle" /\ schedule' = schedule /\ runs' = runs)]_vars

\* C16 witness: a member that is no Task has been claimed, the loop is back
\* in its select, and a Task is still in the schedule.
C16_Witness ==
    \E w \in LoopWorkers :
        /\ \E n \in ForeignIDs : outcome[n] = "corrupt"
        /\ pc[w] = "idle"
        /\ \E e \in schedule : IsTask(e.member)

\* The entries of task i in the schedule, and the workers that hold it:
\* claimed, and the handler or produceRetry not yet done.
EntriesOf(i) == {e \in schedule : e.member.body.ID = i}

HoldersOf(i) == {w \in Workers : pc[w] \in {"handling", "retrying"} /\ task[w].ID = i}

\* In how many places task i is.
PlacesOf(i) ==
    Cardinality(EntriesOf(i)) + Cardinality(HoldersOf(i))
        + (IF outcome[i] = "completed" THEN 1 ELSE 0)
        + (IF outcome[i] = "dropped" THEN 1 ELSE 0)

\* C17: as long as no store call has failed (and no worker dies), every
\* task produced is in exactly one place: once in the schedule, held by one
\* worker, completed, or dropped at the retry ceiling; and at most one
\* member is recorded under a worker's in-progress key.
C17_Conservation ==
    faults = 0 =>
        /\ \A i \in TaskIDs : i < nextID => PlacesOf(i) = 1
        /\ \A i \in TaskIDs : i >= nextID => PlacesOf(i) = 0
        /\ \A w \in Workers : Cardinality(inProgress[w]) <= 1

\* C17 witness: no store call has failed; one task is held by a worker and
\* the other, which has failed before, is in the schedule.
C17_Witness ==
    /\ faults = 0
    /\ \E i, j \in TaskIDs :
          /\ Cardinality(HoldersOf(i)) = 1
          /\ Cardinality(EntriesOf(j)) = 1
          /\ runs[j] > 0

\* A task is at its end: completed, or dropped at the retry ceiling.
Terminal(i) == outcome[i] \in {"completed", "dropped"}

\* C18: when time advances, store calls succeed, handlers return and one
\* worker keeps polling, every task in the schedule comes to a handler, and
\* with maxRetries >= 0 every task produced comes to its end.
C18_EventualProcessing ==
    /\ \A i \in TaskIDs :
          (EntriesOf(i) # {}) ~> (HoldersOf(i) # {})
    /\ \A i \in TaskIDs :
          (maxRetries >= 0 /\ i < nextID) ~> Terminal(i)

\* C18 witness: with maxRetries = 1 a task has failed, waited for its retry
\* time beyond MaxNow, failed again and is dropped.
C18_Witness ==
    \E i \in TaskIDs :
        /\ maxRetries = 1
        /\ outcome[i] = "dropped"
        /\ now > MaxNow

\* C19 as stated: as long as no store call has failed and the worker has
\* not died, nothing is recorded under the in-progress key of a worker that
\* waits in its select, whatever the consume calls before have claimed, a
\* member that is no Task included.
C19_AsStated ==
    (faults = 0 /\ crashes = 0) =>
        \A w \in LoopWorkers : pc[w] = "idle" => inProgress[w] = {}

\* C20 as stated: a worker that waits in its select with its context
\* cancelled never runs the claim script again, so nothing more leaves the
\* schedule through it, a tick arriving together with the cancellation or
\* not.
C20_AsStated ==
    [][\A w \in LoopWorkers :
          (cancelled[w] /\ pc[w] = "idle") => ~ClaimStep(w)]_vars

====
